---- MODULE Spec2Model ----
(***************************************************************************)
(* A model of plot_geometric_figures/main.py: one run of the command-line  *)
(* tool, from the import of the module to the exit of the process.         *)
(*                                                                         *)
(* Strings that the program inspects (the -o path) are sequences of        *)
(* one-character strings; a Python None is the empty tuple and a present   *)
(* value v is <<v>>.  Floats are small integers.                           *)
(***************************************************************************)
EXTENDS Integers, Sequences, FiniteSets, TLC

VARIABLES
    pc,           \* position of the process in main()
    argv,         \* the command line, as the fields argparse reads
    script_args,  \* ArgsParser.script_args: None or the parsed Namespace
    plotter,      \* the plotter instance made by cls.run: None or its fields
    calls,        \* the calls made to the plotting backend, in order
    backend,      \* the backend's selected output driver (process-wide)
    axes,         \* the current axes: axis visibility, patches, scaling
    display,      \* "none", "open" while plt.show() blocks, "closed" after
    files,        \* the paths written by plt.savefig
    stderr,       \* the messages parser.error printed
    exit_status,  \* None while running, <<code>> once the process has ended
    io_error      \* TRUE once plt.savefig has raised an I/O error

vars == <<pc, argv, script_args, plotter, calls, backend, axes, display,
          files, stderr, exit_status, io_error>>

----------------------------------------------------------------------------
(* Bounds *)

MaxVal == 2

MaxPathLen == 6

----------------------------------------------------------------------------
(* Values *)

None == <<>>

Some(v) == <<v>>

Vals == 0 .. MaxVal

OptVals == {None} \cup {Some(v) : v \in Vals}

Chars == {".", "/", "p", "s"}

RECURSIVE Count(_, _)
Count(s, e) ==
    IF s = <<>> THEN 0
    ELSE (IF Head(s) = e THEN 1 ELSE 0) + Count(Tail(s), e)

Range(s) == {s[i] : i \in 1 .. Len(s)}

\* The formats the backend reports at import time, in the backend's order.
SUPPORTED_FILE_TYPES == << <<"p", "s">> >>

----------------------------------------------------------------------------
(* str.split, str.upper and the parts of pathlib.Path the program uses *)

\* s.split(c): the pieces of s between the occurrences of c
RECURSIVE split(_, _)
split(s, c) ==
    IF \A i \in 1 .. Len(s) : s[i] # c THEN <<s>>
    ELSE LET i == CHOOSE k \in 1 .. Len(s) :
                      s[k] = c /\ \A j \in 1 .. (k - 1) : s[j] # c
         IN  <<SubSeq(s, 1, i - 1)>> \o split(SubSeq(s, i + 1, Len(s)), c)

upper_char(c) == IF c = "p" THEN "P" ELSE IF c = "s" THEN "S" ELSE c

upper(s) == [i \in 1 .. Len(s) |-> upper_char(s[i])]

\* number of leading "/" of s
RECURSIVE leading_slashes(_)
leading_slashes(s) ==
    IF s = <<>> \/ Head(s) # "/" THEN 0 ELSE 1 + leading_slashes(Tail(s))

\* Path(s): the anchor ("", "/" or the POSIX "//") and the components, with
\* empty and "." components dropped
Path(s) ==
    LET n == leading_slashes(s)
        pieces == split(s, "/")
    IN  [anchor |-> IF n = 0 THEN "" ELSE IF n = 2 THEN "//" ELSE "/",
         parts  |-> SelectSeq(pieces, LAMBDA q : q # <<>> /\ q # <<".">>)]

\* Path.name: the final component, or '' when there is none
name(p) == IF p.parts = <<>> THEN <<>> ELSE p.parts[Len(p.parts)]

\* str.rfind('.') as a 1-based index, 0 when there is no dot
rfind_dot(s) ==
    IF \A i \in 1 .. Len(s) : s[i] # "." THEN 0
    ELSE CHOOSE k \in 1 .. Len(s) :
             s[k] = "." /\ \A j \in (k + 1) .. Len(s) : s[j] # "."

\* Path.suffix: from the last dot of the name on, unless that dot is the
\* first or the last character of the name
suffix(p) ==
    LET nm == name(p)
        i == rfind_dot(nm)
    IN  IF 1 < i /\ i < Len(nm) THEN SubSeq(nm, i, Len(nm)) ELSE <<>>

\* the working directory of the process
Cwd == [anchor |-> "/", parts |-> << <<"p">> >>]

\* Path.absolute(): an anchored path is kept, another is put under the cwd
absolute(p) ==
    IF p.anchor # "" THEN p
    ELSE [anchor |-> Cwd.anchor, parts |-> Cwd.parts \o p.parts]

----------------------------------------------------------------------------
(* ArgsParser *)

OutputTypes == {"file", "show", "console"}

\* parse(): the Namespace argparse builds from the command line; -x, -y and
\* --angle default to 0 and -o, when given, is converted to a Path
parse(a) ==
    LET outputfile == IF a.o = None THEN None ELSE Some(Path(a.o[1]))
        x == IF a.x = None THEN 0 ELSE a.x[1]
        y == IF a.y = None THEN 0 ELSE a.y[1]
    IN  IF a.figuretype = "circle"
        THEN [outputtype |-> a.t, outputfile |-> outputfile, x |-> x, y |-> y,
              figuretype |-> a.figuretype, radius |-> a.radius]
        ELSE [outputtype |-> a.t, outputfile |-> outputfile, x |-> x, y |-> y,
              figuretype |-> a.figuretype, width |-> a.width,
              height |-> a.height,
              angle |-> IF a.angle = None THEN 0 ELSE a.angle[1]]

\* extension, were it the text after the last dot of the name, wherever
\* that dot stands
extension_after_last_dot(p) ==
    LET pieces == split(name(p), ".")
    IN  IF Len(pieces) = 1 THEN <<>> ELSE pieces[Len(pieces)]

\* the extension check_args looks at
extension(p) ==
    LET pieces == split(suffix(p), ".") IN pieces[Len(pieces)]

\* check_args, were the test for a missing -o left out
check_args_error_no_outputfile_check(args) ==
    IF args.outputtype = "file" /\ args.outputfile # None
    THEN LET ext == extension(args.outputfile[1])
         IN  IF ext = <<>>
             THEN Some([text |-> "Please specify file extension",
                        extension |-> <<>>,
                        supported |-> SUPPORTED_FILE_TYPES])
             ELSE IF ext \notin Range(SUPPORTED_FILE_TYPES)
             THEN Some([text |-> "file format is not supported by matplotlib",
                        extension |-> upper(ext),
                        supported |-> SUPPORTED_FILE_TYPES])
             ELSE None
    ELSE None

\* check_args, were the missing-extension message without its second line
check_args_error_bare_message(args) ==
    IF args.outputtype = "file"
    THEN IF args.outputfile = None
         THEN Some([text |-> "-o must be specified if output type is file",
                    extension |-> <<>>, supported |-> <<>>])
         ELSE LET ext == extension(args.outputfile[1])
              IN  IF ext = <<>>
                  THEN Some([text |-> "Please specify file extension",
                             extension |-> <<>>, supported |-> <<>>])
                  ELSE IF ext \notin Range(SUPPORTED_FILE_TYPES)
                  THEN Some([text |-> "file format is not supported by matplotlib",
                             extension |-> upper(ext),
                             supported |-> SUPPORTED_FILE_TYPES])
                  ELSE None
    ELSE None

\* check_args after parsing: the message handed to parser.error, or None
check_args_error(args) ==
    IF args.outputtype = "file"
    THEN IF args.outputfile = None
         THEN Some([text |-> "-o must be specified if output type is file",
                    extension |-> <<>>, supported |-> <<>>])
         ELSE LET ext == extension(args.outputfile[1])
              IN  IF ext = <<>>
                  THEN Some([text |-> "Please specify file extension",
                             extension |-> <<>>,
                             supported |-> SUPPORTED_FILE_TYPES])
                  ELSE IF ext \notin Range(SUPPORTED_FILE_TYPES)
                  THEN Some([text |-> "file format is not supported by matplotlib",
                             extension |-> upper(ext),
                             supported |-> SUPPORTED_FILE_TYPES])
                  ELSE None
    ELSE None

----------------------------------------------------------------------------
(* The patches of the backend *)

Circle(xy, radius) == [kind |-> "Circle", xy |-> xy, radius |-> radius]

Rectangle(xy, width, height, angle) ==
    [kind |-> "Rectangle", xy |-> xy, width |-> width, height |-> height,
     angle |-> angle]

Ellipse(xy, width, height, angle) ==
    [kind |-> "Ellipse", xy |-> xy, width |-> width, height |-> height,
     angle |-> angle]

----------------------------------------------------------------------------
(* The plotters *)

\* the constructor, were the path not kept
AbstractPlotter_init_no_path(x, y, output_type, output_file_path) ==
    [plotted_data |-> None,
     coordinates |-> <<x, y>>,
     output_type |-> output_type,
     output_file_path |-> None]

AbstractPlotter_init(x, y, output_type, output_file_path) ==
    [plotted_data |-> None,
     coordinates |-> <<x, y>>,
     output_type |-> output_type,
     output_file_path |-> IF output_file_path # None
                          THEN Some(absolute(output_file_path[1]))
                          ELSE None]

CirclePlotter_init(x, y, radius, output_type, output_file_path) ==
    AbstractPlotter_init(x, y, output_type, output_file_path)
        @@ [cls |-> "CirclePlotter", radius |-> radius]

\* EllipsePlotter inherits this constructor
RectanglePlotter_init(cls, x, y, width, height, angle, output_type, output_file_path) ==
    AbstractPlotter_init(x, y, output_type, output_file_path)
        @@ [cls |-> cls, width |-> width, height |-> height, angle |-> angle]

\* plot, were the circle built and not stored
CirclePlotter_plot_unassigned(self) == self

\* plot, were the coordinates passed in the other order
CirclePlotter_plot_swapped_xy(self) ==
    [self EXCEPT !.plotted_data =
        Some(Circle(<<self.coordinates[2], self.coordinates[1]>>, self.radius))]

CirclePlotter_plot(self) ==
    [self EXCEPT !.plotted_data = Some(Circle(self.coordinates, self.radius))]

RectanglePlotter_plot(self) ==
    [self EXCEPT !.plotted_data =
        Some(Rectangle(self.coordinates, self.width, self.height, self.angle))]

\* plot, were width and height passed in the other order
EllipsePlotter_plot_swapped(self) ==
    [self EXCEPT !.plotted_data =
        Some(Ellipse(self.coordinates, self.height, self.width, self.angle))]

EllipsePlotter_plot(self) ==
    [self EXCEPT !.plotted_data =
        Some(Ellipse(self.coordinates, self.width, self.height, self.angle))]

\* the plotter main() constructs for the parsed arguments
main_plotter(args) ==
    IF args.figuretype = "circle"
    THEN CirclePlotter_init(args.x, args.y, args.radius,
                            args.outputtype, args.outputfile)
    ELSE IF args.figuretype = "rectangle"
    THEN RectanglePlotter_init("RectanglePlotter", args.x, args.y, args.width,
                               args.height, args.angle,
                               args.outputtype, args.outputfile)
    ELSE RectanglePlotter_init("EllipsePlotter", args.x, args.y, args.width,
                               args.height, args.angle,
                               args.outputtype, args.outputfile)

\* do_output, were the file written in every mode
do_output_calls_always_savefig(output_type) ==
    (IF output_type = "console" THEN <<"use">> ELSE <<>>)
        \o <<"gca", "set_axis_off", "add_patch", "axis">>
        \o (IF output_type \in {"show", "console"} THEN <<"show", "savefig">>
            ELSE <<"savefig">>)

\* do_output, were the driver selected after the axes were obtained
do_output_calls_late_use(output_type) ==
    <<"gca", "set_axis_off">>
        \o (IF output_type = "console" THEN <<"use">> ELSE <<>>)
        \o <<"add_patch", "axis">>
        \o (IF output_type \in {"show", "console"} THEN <<"show">>
            ELSE IF output_type = "file" THEN <<"savefig">>
            ELSE <<>>)

\* the backend calls of do_output, in order, after its assertion
do_output_calls(output_type) ==
    (IF output_type = "console" THEN <<"use">> ELSE <<>>)
        \o <<"gca", "set_axis_off", "add_patch", "axis">>
        \o (IF output_type \in {"show", "console"} THEN <<"show">>
            ELSE IF output_type = "file" THEN <<"savefig">>
            ELSE <<>>)

\* do_output, were the exception of plt.savefig caught and dropped
do_output_pc_swallowed(output_type, io_ok) ==
    IF output_type \in {"show", "console"} THEN "showing" ELSE "done"

\* where do_output leaves the process: blocked in plt.show(), returned, or
\* terminated by the exception plt.savefig raised
do_output_pc(output_type, io_ok) ==
    IF output_type \in {"show", "console"} THEN "showing"
    ELSE IF output_type = "file" /\ ~io_ok THEN "crashed"
    ELSE "done"

----------------------------------------------------------------------------
(* The inputs *)

\* the -o paths of the runs: shape, shape.s, out.ps, .ps, s.p.ps, p.ps/s, ''
RunPaths ==
    { <<"p">>,
      <<"p", ".", "s">>,
      <<"p", ".", "p", "s">>,
      <<".", "p", "s">>,
      <<"s", ".", "p", ".", "p", "s">>,
      <<"p", ".", "p", "s", "/", "s">>,
      <<>> }

RECURSIVE Strings(_)
Strings(n) ==
    IF n = 0 THEN {<<>>}
    ELSE LET shorter == Strings(n - 1)
         IN  shorter \cup {Append(s, c) : s \in {t \in shorter : Len(t) = n - 1},
                                          c \in Chars}

AllPaths == Strings(MaxPathLen)

Opt(S) == {None} \cup {Some(v) : v \in S}

CircleArgv(paths) ==
    [t : OutputTypes, o : Opt(paths), x : OptVals, y : OptVals,
     figuretype : {"circle"}, radius : Vals]

BoxArgv(paths) ==
    [t : OutputTypes, o : Opt(paths), x : OptVals, y : OptVals,
     figuretype : {"rectangle", "ellipse"}, width : Vals, height : Vals,
     angle : OptVals]

\* the command lines of the path study: every path, one fixed circle
PathArgv ==
    [t : OutputTypes, o : Opt(AllPaths), x : {None}, y : {None},
     figuretype : {"circle"}, radius : {1}]

----------------------------------------------------------------------------
(* The run *)

\* a process with command line a, before any of its objects exist
Fresh(a) ==
    /\ argv = a
    /\ script_args = None
    /\ plotter = None
    /\ backend = "default"
    /\ axes = [axis_on |-> TRUE, patches |-> <<>>, scaled |-> FALSE]
    /\ display = "none"
    /\ files = {}
    /\ stderr = <<>>
    /\ exit_status = None
    /\ io_error = FALSE

Init ==
    /\ pc = "start"
    /\ calls = <<>>
    /\ \E a \in CircleArgv(RunPaths) \cup BoxArgv(RunPaths) : Fresh(a)

\* line 13: the import obtains a figure and asks its canvas for the formats
ImportModule ==
    /\ pc = "start"
    /\ pc' = "imported"
    /\ calls' = calls \o <<"gcf", "get_supported_filetypes">>
    /\ UNCHANGED <<argv, script_args, plotter, backend, axes, display, files,
                   stderr, exit_status, io_error>>

\* ArgsParser.check_and_get_args: a new parser, parse(), the checks of
\* check_args; parser.error prints the message and exits with status 2
check_and_get_args ==
    /\ pc = "imported"
    /\ LET args == parse(argv)
           err == check_args_error(args)
       IN  /\ script_args' = Some(args)
           /\ IF err # None
              THEN /\ stderr' = Append(stderr, err[1])
                   /\ exit_status' = Some(2)
                   /\ pc' = "usage_error"
              ELSE /\ pc' = "checked"
                   /\ UNCHANGED <<stderr, exit_status>>
    /\ UNCHANGED <<argv, plotter, calls, backend, axes, display, files, io_error>>

\* main, lines 185-214, and the first line of run: the plotter is constructed
construct ==
    /\ pc = "checked"
    /\ plotter' = Some(main_plotter(script_args[1]))
    /\ pc' = "constructed"
    /\ UNCHANGED <<argv, script_args, calls, backend, axes, display, files,
                   stderr, exit_status, io_error>>

\* plotter.plot(): the method of the plotter's class
plot ==
    /\ pc = "constructed"
    /\ LET self == plotter[1]
           after == IF self.cls = "CirclePlotter" THEN CirclePlotter_plot(self)
                    ELSE IF self.cls = "RectanglePlotter"
                    THEN RectanglePlotter_plot(self)
                    ELSE EllipsePlotter_plot(self)
       IN  /\ plotter' = Some(after)
           /\ calls' = IF after.plotted_data = None THEN calls
                       ELSE Append(calls, after.plotted_data[1].kind)
    /\ pc' = "plotted"
    /\ UNCHANGED <<argv, script_args, backend, axes, display, files, stderr,
                   exit_status, io_error>>

\* plotter.do_output(): the assertion, then the backend calls; plt.show()
\* blocks, plt.savefig either writes the file or raises
do_output ==
    /\ pc = "plotted"
    /\ LET self == plotter[1]
           todo == do_output_calls(self.output_type)
       IN  IF self.plotted_data = None
           THEN /\ pc' = "crashed"
                /\ exit_status' = Some(1)
                /\ UNCHANGED <<calls, backend, axes, display, files, io_error>>
           ELSE \E io_ok \in (IF "savefig" \in Range(todo) THEN BOOLEAN ELSE {TRUE}) :
                /\ calls' = calls \o todo
                /\ backend' = IF "use" \in Range(todo)
                              THEN "module://drawilleplot" ELSE backend
                /\ axes' = [axis_on |-> IF "set_axis_off" \in Range(todo)
                                        THEN FALSE ELSE axes.axis_on,
                            patches |-> axes.patches \o
                                [i \in 1 .. Count(todo, "add_patch") |->
                                    self.plotted_data[1]],
                            scaled |-> axes.scaled \/ "axis" \in Range(todo)]
                /\ display' = IF "show" \in Range(todo) THEN "open" ELSE display
                /\ files' = IF "savefig" \in Range(todo) /\ io_ok
                            THEN files \cup {self.output_file_path}
                            ELSE files
                /\ io_error' = (io_error \/ ~io_ok)
                /\ pc' = do_output_pc(self.output_type, io_ok)
                /\ exit_status' = IF pc' = "done" THEN Some(0)
                                  ELSE IF pc' = "crashed" THEN Some(1)
                                  ELSE exit_status
    /\ UNCHANGED <<argv, script_args, plotter, stderr>>

\* the user closes the display: plt.show() returns and the process ends
close_display ==
    /\ pc = "showing"
    /\ display' = "closed"
    /\ pc' = "done"
    /\ exit_status' = Some(0)
    /\ UNCHANGED <<argv, script_args, plotter, calls, backend, axes, files,
                   stderr, io_error>>

Next ==
    \/ ImportModule
    \/ check_and_get_args
    \/ construct
    \/ plot
    \/ do_output
    \/ close_display

Spec == Init /\ [][Next]_vars

\* the path study: check_and_get_args on every path of the bound
InitArgs ==
    /\ pc = "imported"
    /\ calls = <<"gcf", "get_supported_filetypes">>
    /\ \E a \in PathArgv : Fresh(a)

NextArgs == check_and_get_args

SpecArgs == InitArgs /\ [][NextArgs]_vars

----------------------------------------------------------------------------
(* Properties *)

Args == parse(argv)

Validated == pc \in {"checked", "constructed", "plotted", "showing", "done", "crashed"}

Supported(ext) == ext \in Range(SUPPORTED_FILE_TYPES)

PatchKinds == {"Circle", "Rectangle", "Ellipse"}

Drawing == {"gca", "set_axis_off", "add_patch", "axis", "show", "savefig"}

PatchesBuilt == Count(calls, "Circle") + Count(calls, "Rectangle") + Count(calls, "Ellipse")

\* the three ways validation fails
ValidationFails ==
    /\ Args.outputtype = "file"
    /\ \/ Args.outputfile = None
       \/ extension(Args.outputfile[1]) = <<>>
       \/ ~Supported(extension(Args.outputfile[1]))

\* C1: once the arguments of a run that fails validation (file mode with -o
\* missing, or with an empty or an unsupported extension) have been checked,
\* the process has ended with a non-zero status, no plotter was constructed,
\* no patch was built or added, no display was opened and no file written.
C1_ValidationFailureStopsTheRun ==
    (pc \notin {"start", "imported"} /\ ValidationFails) =>
        /\ pc = "usage_error"
        /\ exit_status # None /\ exit_status[1] # 0
        /\ plotter = None
        /\ Range(calls) \subseteq {"gcf", "get_supported_filetypes"}
        /\ axes.patches = <<>>
        /\ display = "none"
        /\ files = {}

C1_Witness ==
    /\ pc = "usage_error"
    /\ argv.t = "file"
    /\ argv.o = None
    /\ exit_status = Some(2)

\* the outcome of check_args for a file-mode run with a path
Outcome ==
    IF pc = "checked" THEN "passes"
    ELSE IF pc = "usage_error" /\ Len(stderr) = 1
            /\ stderr[1].text = "Please specify file extension"
    THEN "missing extension"
    ELSE IF pc = "usage_error" /\ Len(stderr) = 1
            /\ stderr[1].text = "file format is not supported by matplotlib"
    THEN "unsupported format"
    ELSE "other"

Classified(ext) ==
    Outcome = IF ext = <<>> THEN "missing extension"
              ELSE IF Supported(ext) THEN "passes"
              ELSE "unsupported format"

\* the text after the last dot of s, empty when s has no dot
AfterLastDot(s) ==
    IF rfind_dot(s) = 0 THEN <<>> ELSE SubSeq(s, rfind_dot(s) + 1, Len(s))

\* the text after the last dot of s, empty when s has no dot, when its last
\* dot is its first character or when its last dot is its last character
AfterInnerDot(s) ==
    IF rfind_dot(s) <= 1 \/ rfind_dot(s) = Len(s) THEN <<>>
    ELSE SubSeq(s, rfind_dot(s) + 1, Len(s))

\* C2 as stated: every file-mode path is classified by the text after the
\* last dot of its final component: empty gives the missing-extension error,
\* unsupported text the unsupported-format error, supported text passes.
C2_ClassifiedByLastDot ==
    (pc # "imported" /\ argv.t = "file" /\ argv.o # None) =>
        Classified(AfterLastDot(name(Path(argv.o[1]))))

\* C2 amended: every file-mode path is classified by the text after the last
\* dot of its final component, where a dot that is the first or the last
\* character of the component does not start an extension (Path.suffix):
\* exactly one of missing extension, unsupported format and pass occurs.
C2_ClassifiedBySuffix ==
    (pc # "imported" /\ argv.t = "file" /\ argv.o # None) =>
        /\ Classified(AfterInnerDot(name(Path(argv.o[1]))))
        /\ Outcome \in {"missing extension", "unsupported format", "passes"}

C2_Witness ==
    /\ pc = "checked"
    /\ argv.t = "file"
    /\ argv.o = Some(<<"s", ".", "p", ".", "p", "s">>)

\* C3 as stated: each of the three validation errors is reported with a
\* message that lists the supported extensions.
C3_EveryErrorListsExtensions ==
    pc = "usage_error" =>
        /\ Len(stderr) = 1
        /\ stderr[1].supported = SUPPORTED_FILE_TYPES

\* C3 amended: the missing-extension and the unsupported-extension errors are
\* reported with a message that lists the supported extensions; the error for
\* a missing -o says only that -o must be specified and lists none.
C3_ExtensionErrorsListExtensions ==
    pc = "usage_error" =>
        /\ Len(stderr) = 1
        /\ IF argv.o = None
           THEN /\ stderr[1].text = "-o must be specified if output type is file"
                /\ stderr[1].supported = <<>>
           ELSE /\ stderr[1].text \in {"Please specify file extension",
                                       "file format is not supported by matplotlib"}
                /\ stderr[1].supported = SUPPORTED_FILE_TYPES

C3_Witness ==
    /\ pc = "usage_error"
    /\ argv.o = Some(<<"p">>)
    /\ Len(stderr) = 1
    /\ stderr[1].text = "Please specify file extension"
    /\ stderr[1].supported = SUPPORTED_FILE_TYPES

\* C4 as stated: after validation the output file path is set if and only if
\* the mode is file, in the parsed arguments and in the plotter, and a path
\* that is set has a supported extension.
C4_PathIffFileMode ==
    Validated =>
        /\ (Args.outputfile # None) <=> (Args.outputtype = "file")
        /\ Args.outputfile # None => Supported(extension(Args.outputfile[1]))
        /\ plotter # None =>
            /\ (plotter[1].output_file_path # None)
                   <=> (plotter[1].output_type = "file")
            /\ plotter[1].output_file_path # None =>
                   Supported(extension(plotter[1].output_file_path[1]))

\* C4 amended: after validation, if the mode is file the output file path is
\* set and its extension is supported, in the parsed arguments and in the
\* plotter; in the modes show and console the path is set exactly when -o
\* was given, and it is not validated.
C4_FileModeHasValidPath ==
    Validated =>
        /\ script_args = Some(Args)
        /\ Args.outputtype = "file" =>
            /\ Args.outputfile # None
            /\ Supported(extension(Args.outputfile[1]))
        /\ (Args.outputfile # None) <=> (argv.o # None)
        /\ plotter # None =>
            /\ plotter[1].output_type = Args.outputtype
            /\ (plotter[1].output_file_path # None) <=> (argv.o # None)
            /\ plotter[1].output_type = "file" =>
                /\ plotter[1].output_file_path # None
                /\ Supported(extension(plotter[1].output_file_path[1]))

C4_Witness ==
    /\ plotter # None
    /\ plotter[1].output_type = "file"
    /\ plotter[1].output_file_path # None
    /\ Supported(extension(plotter[1].output_file_path[1]))

OutputDone == pc \in {"showing", "done", "crashed"}

\* C5 as stated: a validated run in file mode writes the figure once, never
\* shows, and exits 0; a run in show or console mode shows, exits 0 only
\* after the display is closed, and never writes.
C5_OneOutputActionExitZero ==
    /\ (OutputDone /\ argv.t = "file") =>
        /\ Count(calls, "savefig") = 1
        /\ Count(calls, "show") = 0
        /\ display = "none"
        /\ exit_status = Some(0)
    /\ (OutputDone /\ argv.t \in {"show", "console"}) =>
        /\ Count(calls, "show") = 1
        /\ Count(calls, "savefig") = 0
        /\ files = {}
        /\ exit_status # None => (exit_status = Some(0) /\ display = "closed")

\* C5 amended: a validated run in file mode makes one write of the figure to
\* the output file path, never shows, and exits 0 when that write succeeds;
\* a run in show or console mode shows, exits 0 only after the display is
\* closed, and never writes, with or without -o.
C5_OneOutputAction ==
    /\ ~OutputDone => (Count(calls, "savefig") = 0 /\ Count(calls, "show") = 0
                       /\ files = {} /\ display = "none")
    /\ (OutputDone /\ argv.t = "file") =>
        /\ Count(calls, "savefig") = 1
        /\ Count(calls, "show") = 0
        /\ display = "none"
        /\ ~io_error => (pc = "done" /\ exit_status = Some(0)
                         /\ files = {plotter[1].output_file_path})
    /\ (OutputDone /\ argv.t \in {"show", "console"}) =>
        /\ Count(calls, "show") = 1
        /\ Count(calls, "savefig") = 0
        /\ files = {}
        /\ display \in {"open", "closed"}
        /\ display = "open" => exit_status = None
        /\ exit_status # None => (exit_status = Some(0) /\ display = "closed")
        /\ pc = "done" => exit_status = Some(0)

C5_Witness ==
    /\ pc = "done"
    /\ argv.t = "show"
    /\ argv.o # None
    /\ display = "closed"
    /\ files = {}
    /\ exit_status = Some(0)

\* C6: on a validated run plot() runs once and before do_output: the
\* assertion of do_output never fails, one patch is built per run, and it is
\* that patch that is added to the axes, once.
C6_PlotOnceBeforeOutput ==
    /\ PatchesBuilt <= 1
    /\ Count(calls, "add_patch") <= 1
    /\ pc = "plotted" => (plotter[1].plotted_data # None /\ PatchesBuilt = 1)
    /\ pc = "crashed" => io_error
    /\ OutputDone =>
        /\ PatchesBuilt = 1
        /\ Count(calls, "add_patch") = 1
        /\ \A j \in 1 .. Len(calls) : calls[j] \in Drawing \cup {"use"} =>
               \E i \in 1 .. (j - 1) : calls[i] \in PatchKinds
        /\ axes.patches = <<plotter[1].plotted_data[1]>>

C6_Witness ==
    /\ pc = "done"
    /\ PatchesBuilt = 1
    /\ axes.patches = <<plotter[1].plotted_data[1]>>

\* C7 as stated: the output driver is selected at most once, and before any
\* figure or axes is obtained and before any patch is built or added.
C7_DriverSelectedAtStartup ==
    /\ Count(calls, "use") <= 1
    /\ \A i \in 1 .. Len(calls) : calls[i] = "use" =>
           \A j \in 1 .. (i - 1) :
               calls[j] \notin {"gcf", "gca", "add_patch"} \cup PatchKinds

\* C7 amended: the output driver is selected at most once per run, in
\* console mode only, at the start of do_output: after the figure of the
\* import and the patch have been made, and before do_output obtains the
\* axes, adds the patch or draws.
C7_DriverSelectedBeforeDrawing ==
    /\ Count(calls, "use") <= 1
    /\ backend = IF Count(calls, "use") = 1 THEN "module://drawilleplot"
                 ELSE "default"
    /\ OutputDone => (Count(calls, "use") = 1 <=> argv.t = "console")
    /\ \A i \in 1 .. Len(calls) : calls[i] = "use" =>
           /\ \A j \in 1 .. (i - 1) : calls[j] \notin Drawing
           /\ \E j \in 1 .. (i - 1) : calls[j] = "gcf"
           /\ \E j \in 1 .. (i - 1) : calls[j] \in PatchKinds

C7_Witness ==
    /\ pc = "showing"
    /\ argv.t = "console"
    /\ backend = "module://drawilleplot"
    /\ Count(calls, "use") = 1

Given(opt) == IF opt = None THEN 0 ELSE opt[1]

\* C8: a rectangle or ellipse run hands the backend a patch of the kind of
\* the subcommand, at the given (x, y) with the given width, height and
\* angle (0 for each of x, y and angle when omitted), and nothing else; the
\* plotter is of the matching class.
C8_BoxPassedThrough ==
    (argv.figuretype \in {"rectangle", "ellipse"} /\ plotter # None) =>
        LET shape == [kind |-> IF argv.figuretype = "rectangle"
                               THEN "Rectangle" ELSE "Ellipse",
                      xy |-> <<Given(argv.x), Given(argv.y)>>,
                      width |-> argv.width,
                      height |-> argv.height,
                      angle |-> Given(argv.angle)]
        IN  /\ plotter[1].cls = IF argv.figuretype = "rectangle"
                                THEN "RectanglePlotter" ELSE "EllipsePlotter"
            /\ pc # "constructed" => plotter[1].plotted_data = Some(shape)
            /\ OutputDone => axes.patches = <<shape>>

C8_Witness ==
    /\ pc = "done"
    /\ argv.figuretype = "ellipse"
    /\ argv.x = Some(1) /\ argv.y = Some(2)
    /\ argv.width = 1 /\ argv.height = 2 /\ argv.angle = Some(1)
    /\ axes.patches = <<Ellipse(<<1, 2>>, 1, 2, 1)>>

\* C9: a circle run constructs a CirclePlotter whose plot() yields a circle
\* centred at the given (x, y), 0 for each when omitted, with the given
\* radius, and that circle is what the backend is handed.
C9_CirclePassedThrough ==
    (argv.figuretype = "circle" /\ plotter # None) =>
        LET shape == [kind |-> "Circle",
                      xy |-> <<Given(argv.x), Given(argv.y)>>,
                      radius |-> argv.radius]
        IN  /\ plotter[1].cls = "CirclePlotter"
            /\ pc # "constructed" => plotter[1].plotted_data = Some(shape)
            /\ OutputDone => axes.patches = <<shape>>

C9_Witness ==
    /\ pc = "done"
    /\ argv.figuretype = "circle"
    /\ argv.x = Some(1) /\ argv.y = Some(2) /\ argv.radius = 2
    /\ axes.patches = <<Circle(<<1, 2>>, 2)>>

\* C10: when the write of the output file fails, the process ends abnormally
\* with a non-zero status, the write was attempted once, it is the last call
\* made to the backend, and nothing is written or shown.
C10_WriteFailureIsFatal ==
    io_error =>
        /\ argv.t = "file"
        /\ pc = "crashed"
        /\ exit_status # None /\ exit_status[1] # 0
        /\ Count(calls, "savefig") = 1
        /\ calls[Len(calls)] = "savefig"
        /\ files = {}
        /\ display = "none"

C10_Witness ==
    /\ io_error
    /\ pc = "crashed"
    /\ exit_status = Some(1)

====
